---- MODULE Spec2Model ----
(***************************************************************************)
(* Model of sqlformatter.py: the "Format SQL" action of the Streamlit      *)
(* page, its two helpers format_with_sqlglot / format_with_sqlparse and    *)
(* the text transforms they apply (dash_to_block, comment stripping,       *)
(* whitespace collapsing).                                                 *)
(*                                                                         *)
(* A text is a sequence of one-character strings.  The libraries sqlglot   *)
(* and sqlparse are external: a call to them is recorded with its          *)
(* arguments, its outcome (a result or an exception) is chosen             *)
(* nondeterministically where the source guards the call with try/except,  *)
(* and its result is the term "what this call returned".                   *)
(***************************************************************************)
EXTENDS Integers, Sequences, FiniteSets, TLC

VARIABLES
    raw_sql,            \* the pasted / uploaded text (line 68/70)
    dialect, keyword_case, identifier_case, indent, width,
    leading_comma, normalize, remove_comments, compact, single_line_safe,
    HAVE_SQLGLOT, HAVE_SQLPARSE,
    pc,                 \* position inside the `if apply_btn:` handler
    sql,                \* the local `sql` of format_with_sqlglot / format_with_sqlparse
    kw_case,            \* the local `kw_case` of format_with_sqlparse
    e,                  \* the exception bound by `except Exception as e`
    steps,              \* history: every transform applied and every library call made, in order
    pretty_sql,         \* the value returned by the formatter
    shown,              \* out_container content
    download,           \* the download button's data
    message             \* st.warning / st.error / st.success shown by the handler

widgets == <<dialect, keyword_case, identifier_case, indent, width,
             leading_comma, normalize, remove_comments, compact, single_line_safe>>
env == <<HAVE_SQLGLOT, HAVE_SQLPARSE>>
ui == <<pretty_sql, shown, download, message>>
vars == <<raw_sql, widgets, env, pc, sql, kw_case, e, steps, ui>>

(***************************************************************************)
(* Bounds of the model.                                                    *)
(***************************************************************************)
MaxTokens == 3
MaxApply == 2

(***************************************************************************)
(* Texts.                                                                  *)
(***************************************************************************)
NL == "\n"
\* the characters str.strip() and str.split() treat as whitespace (ASCII part)
Whitespace == {" ", "\t", NL, "\r"}

\* the pieces input texts are built from: the comment markers and the
\* characters they are made of, the two whitespace characters, one letter
Tokens == { <<"-">>, <<"-", "-">>, <<"/">>, <<"*">>, <<"/", "*">>, <<"*", "/">>,
            <<" ">>, <<NL>>, <<"a">> }

RECURSIVE Flatten(_)
Flatten(ts) == IF ts = <<>> THEN <<>> ELSE Head(ts) \o Flatten(Tail(ts))

TokenSeqs(n) == UNION { [1..k -> Tokens] : k \in 0..n }
Texts == { Flatten(ts) : ts \in TokenSeqs(MaxTokens) }

\* t occurs in s starting at index i
At(s, i, t) == /\ i >= 1
               /\ i + Len(t) - 1 <= Len(s)
               /\ \A k \in 1..Len(t) : s[i + k - 1] = t[k]
Contains(s, t) == \E i \in 1..Len(s) : At(s, i, t)

DD == <<"-", "-">>

(***************************************************************************)
(* str.strip(), str.split(), str.splitlines(), str.join(), startswith      *)
(***************************************************************************)
RECURSIVE lstrip(_)
lstrip(t) == IF t # <<>> /\ Head(t) \in Whitespace THEN lstrip(Tail(t)) ELSE t

RECURSIVE rstrip(_)
rstrip(t) == IF t # <<>> /\ t[Len(t)] \in Whitespace
             THEN rstrip(SubSeq(t, 1, Len(t) - 1))
             ELSE t

strip(t) == rstrip(lstrip(t))

startswith(t, p) == At(t, 1, p)

\* the last index of the longest run of characters other than newline that
\* starts at i (i - 1 when the run is empty): what [^\n]* consumes
RECURSIVE RunEnd(_, _)
RunEnd(s, i) == IF i <= Len(s) /\ s[i] # NL THEN RunEnd(s, i + 1) ELSE i - 1

RECURSIVE splitlines(_)
splitlines(s) ==
    IF s = <<>> THEN <<>>
    ELSE LET j == RunEnd(s, 1)
         IN  <<SubSeq(s, 1, j)>> \o splitlines(SubSeq(s, j + 2, Len(s)))

RECURSIVE join(_, _)
join(sep, parts) ==
    IF parts = <<>> THEN <<>>
    ELSE IF Len(parts) = 1 THEN parts[1]
    ELSE parts[1] \o sep \o join(sep, Tail(parts))

\* the last index of the run of non-whitespace characters starting at i
RECURSIVE WordEnd(_, _)
WordEnd(s, i) == IF i <= Len(s) /\ s[i] \notin Whitespace THEN WordEnd(s, i + 1) ELSE i - 1

RECURSIVE split(_)
split(s) ==
    LET t == lstrip(s)
    IN  IF t = <<>> THEN <<>>
        ELSE LET j == WordEnd(t, 1)
             IN  <<SubSeq(t, 1, j)>> \o split(SubSeq(t, j + 1, Len(t)))

(***************************************************************************)
(* dash_to_block: re.sub(r"--[^\n]*", lambda m: ..., sql)                  *)
(***************************************************************************)
\* m.group(0)[2:].strip(), with the slice off by one
CommentBodySliceOne(m) == strip(SubSeq(m, 2, Len(m)))

\* m.group(0)[2:], the body left untrimmed
CommentBodyUntrimmed(m) == SubSeq(m, 3, Len(m))

\* m.group(0)[2:].strip()
CommentBody(m) == strip(SubSeq(m, 3, Len(m)))

\* the lambda: "/* " + m.group(0)[2:].strip() + " */"
Replacement(m) == <<"/", "*", " ">> \o CommentBody(m) \o <<" ", "*", "/">>

\* re.sub from index i on: leftmost matches, left to right, not overlapping
RECURSIVE DashSub(_, _)
DashSub(s, i) ==
    IF i > Len(s) THEN <<>>
    ELSE IF At(s, i, DD)
         THEN LET j == RunEnd(s, i + 2)
              IN  Replacement(SubSeq(s, i, j)) \o DashSub(s, j + 1)
         ELSE <<s[i]>> \o DashSub(s, i + 1)

dash_to_block(text) == DashSub(text, 1)

(***************************************************************************)
(* Comment stripping: re.sub(r"/\*.*?\*/", " ", sql, flags=re.S), then     *)
(* "\n".join of the lines that do not start, after strip(), with "--"      *)
(***************************************************************************)
OPEN == <<"/", "*">>
CLOSE == <<"*", "/">>

\* the first index >= i at which "*/" starts (0: there is none)
RECURSIVE FirstClose(_, _)
FirstClose(s, i) ==
    IF i >= Len(s) THEN 0
    ELSE IF At(s, i, CLOSE) THEN i
    ELSE FirstClose(s, i + 1)

\* re.sub from index i on: "/*", the fewest characters (newlines too), "*/"
RECURSIVE BlockSub(_, _)
BlockSub(s, i) ==
    IF i > Len(s) THEN <<>>
    ELSE IF At(s, i, OPEN) /\ FirstClose(s, i + 2) # 0
         THEN <<" ">> \o BlockSub(s, FirstClose(s, i + 2) + 2)
         ELSE <<s[i]>> \o BlockSub(s, i + 1)

\* [ln for ln in lines if not ln.strip().startswith("--")]
KeptLines(lines) == SelectSeq(lines, LAMBDA ln : ~startswith(strip(ln), DD))

\* the two statements in the other order
StripCommentsLinesFirst(text) == BlockSub(join(<<NL>>, KeptLines(splitlines(text))), 1)

\* lines 95-96 / 137-138
StripComments(text) == join(<<NL>>, KeptLines(splitlines(BlockSub(text, 1))))

\* the normalizer applied whatever the toggle says
NormalizeAlways(text) == dash_to_block(text)

\* lines 90-91 / 129-130
NormalizeIfSafe(text) == IF single_line_safe THEN dash_to_block(text) ELSE text

\* whitespace runs collapsed, the ends left alone
CollapseKeepingEnds(text) ==
    LET lead == IF text # <<>> /\ Head(text) \in Whitespace THEN <<" ">> ELSE <<>>
        trail == IF strip(text) # <<>> /\ text[Len(text)] \in Whitespace THEN <<" ">> ELSE <<>>
    IN  lead \o join(<<" ">>, split(text)) \o trail

\* line 103: " ".join(sql.split())
Collapse(text) == join(<<" ">>, split(text))

(***************************************************************************)
(* The option mapping                                                      *)
(***************************************************************************)
\* str.upper() / str.lower() on the option strings
upper(k) == CASE k = "upper" -> "UPPER"
              [] k = "lower" -> "LOWER"
              [] k = "capitalize" -> "CAPITALIZE"
              [] OTHER -> k
lower(k) == CASE k = "UPPER" -> "upper"
              [] k = "LOWER" -> "lower"
              [] k = "CAPITALIZE" -> "capitalize"
              [] OTHER -> k

\* keyword_case.upper(), capitalize not mapped down
KwCaseUnmapped(k) == upper(k)

\* line 133
KwCase(k) == IF k # "capitalize" THEN upper(k) ELSE "upper"

\* the compact call asking for pretty output with the layout options
TranspileCompactKwPretty ==
    [read |-> dialect, pretty |-> TRUE, identity |-> TRUE, indent |-> indent,
     max_text_width |-> width, leading_comma |-> leading_comma]

\* line 100: the keyword arguments of sqlglot.transpile in compact mode
TranspileCompactKw == [read |-> dialect, pretty |-> FALSE, identity |-> TRUE]

\* line 107
ParseOneKw == [read |-> dialect]

\* lines 108-116: the keyword arguments of tree.sql
TreeSqlKw ==
    [pretty |-> TRUE,
     keyword_case |-> keyword_case,
     identifier_case |-> IF identifier_case = "preserve" THEN "None" ELSE identifier_case,
     indent |-> indent,
     max_text_width |-> width,
     leading_comma |-> leading_comma,
     normalize |-> normalize]

\* line 121
TranspilePrettyKw == [read |-> dialect, pretty |-> TRUE]

\* lines 141 and 143-149: the keyword arguments of sqlparse.format
SqlparseKw ==
    IF compact
    THEN [keyword_case |-> lower(kw_case), strip_comments |-> remove_comments,
          reindent |-> FALSE]
    ELSE [keyword_case |-> lower(kw_case), reindent |-> TRUE, indent_width |-> indent,
          strip_comments |-> remove_comments]

\* a library call as recorded in `steps`
Call(op, arg, kw, ok) == [op |-> op, arg |-> arg, kw |-> kw, ok |-> ok]

\* what a library call returned: the term naming the call
ResultOf(op, arg, kw) == [kind |-> "lib", op |-> op, arg |-> arg, kw |-> kw]

\* the exception a failed library call raised
RaisedBy(op) == [exc |-> "Exception", by |-> op]

LibraryOps == {"sqlglot.transpile", "parse_one", "tree.sql", "sqlparse.format"}

\* the handler falling back to sqlparse when sqlglot is asked for compact output
UsePrimaryUnlessCompact == HAVE_SQLGLOT /\ ~(compact /\ HAVE_SQLPARSE)

\* line 157
UsePrimary == HAVE_SQLGLOT

\* only the empty text counted as blank
IsBlankEmptyOnly(text) == text = <<>>

\* line 153: not raw_sql or not raw_sql.strip()
IsBlank(text) == text = <<>> \/ strip(text) = <<>>

\* the retry's own exception raised
ReraiseSecond(first, second) == second

\* line 123: raise e, inside `except Exception:` of the retry
Reraise(first, second) == first

(***************************************************************************)
(* The function on its own: dash_to_block applied to a text, and again to  *)
(* what it returned.                                                       *)
(***************************************************************************)
Defaults ==
    /\ dialect = "spark"
    /\ keyword_case = "upper"
    /\ identifier_case = "preserve"
    /\ indent = 4
    /\ width = 120
    /\ leading_comma = FALSE
    /\ normalize = FALSE
    /\ remove_comments = FALSE
    /\ compact = FALSE
    /\ single_line_safe = FALSE

NoUi ==
    /\ pretty_sql = [kind |-> "none"]
    /\ shown = [kind |-> "none"]
    /\ download = [kind |-> "none"]
    /\ message = [level |-> "none"]

InitNormalizer ==
    /\ raw_sql \in Texts
    /\ Defaults
    /\ HAVE_SQLGLOT = TRUE
    /\ HAVE_SQLPARSE = TRUE
    /\ pc = "dash_to_block"
    /\ sql = raw_sql
    /\ kw_case = ""
    /\ e = [exc |-> "none"]
    /\ steps = <<>>
    /\ NoUi

CallDashToBlock ==
    /\ pc = "dash_to_block"
    /\ Len(steps) < MaxApply
    /\ sql' = dash_to_block(sql)
    /\ steps' = Append(steps, [op |-> "dash_to_block", arg |-> sql, out |-> sql'])
    /\ UNCHANGED <<raw_sql, widgets, env, pc, kw_case, e, ui>>

SpecNormalizer == InitNormalizer /\ [][CallDashToBlock]_vars

(***************************************************************************)
(* The handler of the "Format SQL" button (lines 152-175) and the two      *)
(* formatters it calls, one action per statement group.                    *)
(***************************************************************************)
Dialects == {"spark", "ansi"}
KeywordCases == {"upper", "lower", "capitalize"}
IdentifierCases == {"preserve", "upper", "lower"}
IndentWidths == {2, 4, 8}
LineWidths == {40, 120}

\* an empty text, a whitespace-only text, a statement, and a statement with
\* a trailing comment followed by a comment line
SampleTexts == { <<>>, <<" ", NL>>, <<" ", "a", " ", " ", "a">>,
                 <<"a", " ", "-", "-", "a", NL, "-", "-", "a">> }

Idle ==
    /\ pc = "idle"
    /\ sql = <<>>
    /\ kw_case = ""
    /\ e = [exc |-> "none"]
    /\ steps = <<>>
    /\ NoUi

\* every combination of the sidebar options and of the optional imports
Init ==
    /\ raw_sql \in SampleTexts
    /\ dialect \in Dialects
    /\ keyword_case \in KeywordCases
    /\ identifier_case \in IdentifierCases
    /\ indent \in IndentWidths
    /\ width \in LineWidths
    /\ leading_comma \in BOOLEAN
    /\ normalize \in BOOLEAN
    /\ remove_comments \in BOOLEAN
    /\ compact \in BOOLEAN
    /\ single_line_safe \in BOOLEAN
    /\ HAVE_SQLGLOT \in BOOLEAN
    /\ HAVE_SQLPARSE \in BOOLEAN
    /\ Idle

\* every input text, with the options that decide what is done to the text
InitText ==
    /\ raw_sql \in Texts
    /\ dialect = "spark"
    /\ keyword_case = "upper"
    /\ identifier_case = "preserve"
    /\ indent = 4
    /\ width = 120
    /\ leading_comma = FALSE
    /\ normalize = FALSE
    /\ remove_comments \in BOOLEAN
    /\ compact \in BOOLEAN
    /\ single_line_safe \in BOOLEAN
    /\ HAVE_SQLGLOT \in BOOLEAN
    /\ HAVE_SQLPARSE = TRUE
    /\ Idle

\* lines 152-160: the click, up to the call of a formatter
Apply ==
    /\ pc = "idle"
    /\ IF IsBlank(raw_sql)
       THEN /\ message' = [level |-> "warning"]
            /\ pc' = "done"
            /\ UNCHANGED <<sql, pretty_sql, shown, download>>
       ELSE /\ pc' = IF UsePrimary THEN "glot_normalize" ELSE "parse_check"
            /\ sql' = raw_sql
            /\ UNCHANGED ui
    /\ UNCHANGED <<raw_sql, widgets, env, kw_case, e, steps>>

\* lines 90-91
GlotNormalize ==
    /\ pc = "glot_normalize"
    /\ sql' = NormalizeIfSafe(sql)
    /\ steps' = IF single_line_safe
                THEN Append(steps, [op |-> "dash_to_block", arg |-> sql, out |-> sql'])
                ELSE steps
    /\ pc' = "glot_strip"
    /\ UNCHANGED <<raw_sql, widgets, env, kw_case, e, ui>>

\* lines 93-96
GlotStrip ==
    /\ pc = "glot_strip"
    /\ sql' = IF remove_comments THEN StripComments(sql) ELSE sql
    /\ steps' = IF remove_comments
                THEN Append(steps, [op |-> "strip_comments", arg |-> sql, out |-> sql'])
                ELSE steps
    /\ pc' = IF compact THEN "glot_compact" ELSE "glot_parse"
    /\ UNCHANGED <<raw_sql, widgets, env, kw_case, e, ui>>

\* lines 98-103
GlotCompact ==
    /\ pc = "glot_compact"
    /\ \E ok \in BOOLEAN :
        /\ steps' = Append(steps, Call("sqlglot.transpile", sql, TranspileCompactKw, ok))
        /\ pretty_sql' = IF ok
                         THEN ResultOf("sqlglot.transpile", sql, TranspileCompactKw)
                         ELSE [kind |-> "text", text |-> Collapse(sql)]
    /\ pc' = "show"
    /\ UNCHANGED <<raw_sql, widgets, env, sql, kw_case, e, shown, download, message>>

\* lines 106-107
GlotParse ==
    /\ pc = "glot_parse"
    /\ \E ok \in BOOLEAN :
        /\ steps' = Append(steps, Call("parse_one", sql, ParseOneKw, ok))
        /\ IF ok
           THEN pc' = "glot_render" /\ e' = e
           ELSE pc' = "glot_retry" /\ e' = RaisedBy("parse_one")
    /\ UNCHANGED <<raw_sql, widgets, env, sql, kw_case, ui>>

\* lines 108-117
GlotRender ==
    /\ pc = "glot_render"
    /\ \E ok \in BOOLEAN :
        LET tree == ResultOf("parse_one", sql, ParseOneKw)
        IN  /\ steps' = Append(steps, Call("tree.sql", tree, TreeSqlKw, ok))
            /\ IF ok
               THEN /\ pretty_sql' = ResultOf("tree.sql", tree, TreeSqlKw)
                    /\ pc' = "show"
                    /\ e' = e
               ELSE /\ pretty_sql' = pretty_sql
                    /\ pc' = "glot_retry"
                    /\ e' = RaisedBy("tree.sql")
    /\ UNCHANGED <<raw_sql, widgets, env, sql, kw_case, shown, download, message>>

\* lines 118-123
GlotRetry ==
    /\ pc = "glot_retry"
    /\ \E ok \in BOOLEAN :
        /\ steps' = Append(steps, Call("sqlglot.transpile", sql, TranspilePrettyKw, ok))
        /\ IF ok
           THEN /\ pretty_sql' = ResultOf("sqlglot.transpile", sql, TranspilePrettyKw)
                /\ pc' = "show"
                /\ e' = e
           ELSE /\ pretty_sql' = pretty_sql
                /\ pc' = "fail"
                /\ e' = Reraise(e, RaisedBy("sqlglot.transpile"))
    /\ UNCHANGED <<raw_sql, widgets, env, sql, kw_case, shown, download, message>>

\* lines 126-127
ParseCheck ==
    /\ pc = "parse_check"
    /\ IF ~HAVE_SQLPARSE
       THEN /\ e' = [exc |-> "RuntimeError", by |-> "format_with_sqlparse"]
            /\ pc' = "fail"
       ELSE /\ e' = e
            /\ pc' = "parse_normalize"
    /\ UNCHANGED <<raw_sql, widgets, env, sql, kw_case, steps, ui>>

\* lines 129-133
ParseNormalize ==
    /\ pc = "parse_normalize"
    /\ sql' = NormalizeIfSafe(sql)
    /\ steps' = IF single_line_safe
                THEN Append(steps, [op |-> "dash_to_block", arg |-> sql, out |-> sql'])
                ELSE steps
    /\ kw_case' = KwCase(keyword_case)
    /\ pc' = "parse_strip"
    /\ UNCHANGED <<raw_sql, widgets, env, e, ui>>

\* lines 135-138
ParseStrip ==
    /\ pc = "parse_strip"
    /\ sql' = IF remove_comments THEN StripComments(sql) ELSE sql
    /\ steps' = IF remove_comments
                THEN Append(steps, [op |-> "strip_comments", arg |-> sql, out |-> sql'])
                ELSE steps
    /\ pc' = "parse_format"
    /\ UNCHANGED <<raw_sql, widgets, env, kw_case, e, ui>>

\* lines 140-149: sqlparse.format is called outside any try of the formatter;
\* with option values of these types it returns a text
ParseFormat ==
    /\ pc = "parse_format"
    /\ steps' = Append(steps, Call("sqlparse.format", sql, SqlparseKw, TRUE))
    /\ pretty_sql' = ResultOf("sqlparse.format", sql, SqlparseKw)
    /\ pc' = "show"
    /\ UNCHANGED <<raw_sql, widgets, env, sql, kw_case, e, shown, download, message>>

\* lines 162-173
Show ==
    /\ pc = "show"
    /\ shown' = pretty_sql
    /\ download' = [kind |-> "file", data |-> pretty_sql, mime |-> "text/sql"]
    /\ message' = [level |-> "success"]
    /\ pc' = "done"
    /\ UNCHANGED <<raw_sql, widgets, env, sql, kw_case, e, steps, pretty_sql>>

\* lines 174-175
Fail ==
    /\ pc = "fail"
    /\ message' = [level |-> "error", e |-> e]
    /\ pc' = "done"
    /\ UNCHANGED <<raw_sql, widgets, env, sql, kw_case, e, steps, pretty_sql, shown, download>>

Next ==
    \/ Apply
    \/ GlotNormalize
    \/ GlotStrip
    \/ GlotCompact
    \/ GlotParse
    \/ GlotRender
    \/ GlotRetry
    \/ ParseCheck
    \/ ParseNormalize
    \/ ParseStrip
    \/ ParseFormat
    \/ Show
    \/ Fail

Spec == Init /\ [][Next]_vars

SpecText == InitText /\ [][Next]_vars

(***************************************************************************)
(* What the normalizer is to return, stated line by line.                  *)
(***************************************************************************)
NewlinesOf(s) == { i \in 1..Len(s) : s[i] = NL }

\* the index of the k-th newline of s; 0 before the first line, Len(s) + 1
\* after the last
NthNewline(s, k) ==
    IF k = 0 THEN 0
    ELSE IF k > Cardinality(NewlinesOf(s)) THEN Len(s) + 1
    ELSE CHOOSE i \in NewlinesOf(s) : Cardinality({ j \in NewlinesOf(s) : j <= i }) = k

\* the k-th line: the text between the (k-1)-th and the k-th newline
LineOf(s, k) == SubSeq(s, NthNewline(s, k - 1) + 1, NthNewline(s, k) - 1)
LineCount(s) == Cardinality(NewlinesOf(s)) + 1

\* where the first `--` of a line starts (0: the line has none)
MarkerOf(l) ==
    IF Contains(l, DD)
    THEN CHOOSE p \in 1..Len(l) : At(l, p, DD) /\ \A q \in 1..(p - 1) : ~At(l, q, DD)
    ELSE 0

\* t without its leading and trailing whitespace
Trimmed(t) ==
    LET solid == { i \in 1..Len(t) : t[i] \notin Whitespace }
    IN  IF solid = {} THEN <<>>
        ELSE SubSeq(t, CHOOSE i \in solid : \A j \in solid : i <= j,
                       CHOOSE i \in solid : \A j \in solid : j <= i)

NormalizedLine(l) ==
    LET p == MarkerOf(l)
    IN  IF p = 0 THEN l
        ELSE SubSeq(l, 1, p - 1) \o <<"/", "*", " ">>
             \o Trimmed(SubSeq(l, p + 2, Len(l))) \o <<" ", "*", "/">>

RECURSIVE NormalizedFrom(_, _)
NormalizedFrom(s, k) ==
    IF k = LineCount(s) THEN NormalizedLine(LineOf(s, k))
    ELSE NormalizedLine(LineOf(s, k)) \o <<NL>> \o NormalizedFrom(s, k + 1)

NormalizedText(s) == NormalizedFrom(s, 1)

\* C1: every application of dash_to_block returns its argument with each
\* comment span (the first `--` of a line and the rest of that line) replaced
\* by "/* " + the trimmed text after the marker + " */"; the text before the
\* marker and every newline are kept, so a text without `--` comes back as is.
C1_NormalizerContract ==
    \A k \in 1..Len(steps) :
        steps[k].op = "dash_to_block" =>
            /\ steps[k].out = NormalizedText(steps[k].arg)
            /\ (~Contains(steps[k].arg, DD) => steps[k].out = steps[k].arg)

\* "-- a" came back as "/* a */"
C1_Witness ==
    /\ Len(steps) >= 1
    /\ steps[1].arg = <<"-", "-", " ", "a">>
    /\ steps[1].out = <<"/", "*", " ", "a", " ", "*", "/">>

\* C2 as claimed: applying the normalizer to its own output changes nothing,
\* for every input text.
C2_IdempotentOnEveryInput ==
    Len(steps) >= 2 => steps[2].out = steps[1].out

\* no comment body of s holds a further `--`
BodiesHaveNoMarker(s) ==
    \A k \in 1..LineCount(s) :
        LET l == LineOf(s, k)
            p == MarkerOf(l)
        IN  p # 0 => ~Contains(SubSeq(l, p + 2, Len(l)), DD)

\* C2 as amended: for every input text none of whose comment bodies holds a
\* further `--`, the normalized text holds no `--` and normalizing it again
\* changes nothing.
C2_IdempotentWhenBodiesHaveNoMarker ==
    (Len(steps) >= 2 /\ BodiesHaveNoMarker(steps[1].arg)) =>
        /\ ~Contains(steps[1].out, DD)
        /\ steps[2].out = steps[1].out

\* "a--a" normalized twice: "a/* a */" both times
C2_Witness ==
    /\ Len(steps) = 2
    /\ steps[1].arg = <<"a", "-", "-", "a">>
    /\ BodiesHaveNoMarker(steps[1].arg)
    /\ steps[2].out = <<"a", "/", "*", " ", "a", " ", "*", "/">>

(***************************************************************************)
(* What the comment stripper is to return.                                 *)
(***************************************************************************)
\* where a block comment that is closed opens, at or after index i (0: nowhere)
OpenFrom(s, i) ==
    LET opens == { o \in i..Len(s) :
                     At(s, o, OPEN) /\ \E c \in (o + 2)..Len(s) : At(s, c, CLOSE) }
    IN  IF opens = {} THEN 0 ELSE CHOOSE o \in opens : \A x \in opens : o <= x

\* where the first "*/" after the "/*" at o starts
CloseOf(s, o) ==
    CHOOSE c \in (o + 2)..Len(s) :
        At(s, c, CLOSE) /\ \A x \in (o + 2)..(c - 1) : ~At(s, x, CLOSE)

RECURSIVE BlocksToSpace(_, _)
BlocksToSpace(s, i) ==
    LET o == OpenFrom(s, i)
    IN  IF o = 0 THEN SubSeq(s, i, Len(s))
        ELSE SubSeq(s, i, o - 1) \o <<" ">> \o BlocksToSpace(s, CloseOf(s, o) + 2)

\* the number of lines of s, a line being ended by a newline or by the end
\* of the text (a final newline ends the last line, it starts no further one)
EndedLineCount(s) ==
    IF s = <<>> THEN 0
    ELSE IF s[Len(s)] = NL THEN Cardinality(NewlinesOf(s))
    ELSE Cardinality(NewlinesOf(s)) + 1

\* the first characters of l that are not whitespace are `--`
IsCommentLine(l) ==
    \E p \in 1..Len(l) : At(l, p, DD) /\ \A q \in 1..(p - 1) : l[q] \in Whitespace

\* the lines k.. of s that are no comment lines, a newline between them
RECURSIVE KeptFrom(_, _, _)
KeptFrom(s, k, first) ==
    IF k > EndedLineCount(s) THEN <<>>
    ELSE IF IsCommentLine(LineOf(s, k)) THEN KeptFrom(s, k + 1, first)
    ELSE (IF first THEN <<>> ELSE <<NL>>) \o LineOf(s, k) \o KeptFrom(s, k + 1, FALSE)

CommentsStripped(s) == KeptFrom(BlocksToSpace(s, 1), 1, TRUE)

IsLibraryCall(st) == st.op \in LibraryOps
\* the text a library call was given (tree.sql is given the tree parsed from it)
TextOf(st) == IF st.op = "tree.sql" THEN st.arg.arg ELSE st.arg

NormalizerSteps == { k \in 1..Len(steps) : steps[k].op = "dash_to_block" }
StripperSteps == { k \in 1..Len(steps) : steps[k].op = "strip_comments" }
LibrarySteps == { k \in 1..Len(steps) : IsLibraryCall(steps[k]) }

\* the text as it stood when the stripping step was reached
TextBeforeStrip ==
    IF NormalizerSteps = {} THEN raw_sql
    ELSE steps[CHOOSE k \in NormalizerSteps : TRUE].out

PastStrip == {"glot_compact", "glot_parse", "glot_render", "glot_retry", "parse_format",
              "show"}

\* C3: with remove_comments on, on both paths, the text handed on is the text
\* with every block comment (closed by the first "*/" after its "/*", line
\* breaks included) replaced by one space and then every line that starts,
\* after whitespace, with `--` dropped; other lines, trailing `--` comments
\* included, are kept. With remove_comments off the text is left as it was.
C3_StripperContract ==
    /\ \A k \in StripperSteps : steps[k].out = CommentsStripped(steps[k].arg)
    /\ (StripperSteps # {}) => remove_comments
    /\ pc \in PastStrip =>
          sql = IF remove_comments THEN CommentsStripped(TextBeforeStrip)
                ELSE TextBeforeStrip
    /\ \A k \in LibrarySteps :
          TextOf(steps[k]) = IF remove_comments THEN CommentsStripped(TextBeforeStrip)
                             ELSE TextBeforeStrip

\* "/**/--": removing the block comment exposes a comment line, which is then
\* dropped; the library is handed the empty text
C3_Witness ==
    /\ raw_sql = <<"/", "*", "*", "/", "-", "-">>
    /\ remove_comments /\ ~single_line_safe
    /\ pc = "done"
    /\ \E k \in StripperSteps : steps[k].arg = raw_sql /\ steps[k].out = <<>>
    /\ \E k \in LibrarySteps : TextOf(steps[k]) = <<>>

(***************************************************************************)
(* Backend selection and the error paths.                                  *)
(***************************************************************************)
AllWhitespace(t) == \A i \in 1..Len(t) : t[i] \in Whitespace
PrimaryOps == {"sqlglot.transpile", "parse_one", "tree.sql"}
FallbackPcs == {"parse_check", "parse_normalize", "parse_strip", "parse_format"}
NoOutput ==
    /\ pretty_sql.kind = "none"
    /\ shown.kind = "none"
    /\ download.kind = "none"

\* C4: with sqlglot available, whatever the options, a non-blank request is
\* handled by format_with_sqlglot and sqlparse is never called, not even
\* after sqlglot failed; sqlparse is called only when sqlglot is unavailable.
C4_PrimaryAlwaysPreferred ==
    /\ HAVE_SQLGLOT =>
          /\ pc \notin FallbackPcs
          /\ \A k \in LibrarySteps : steps[k].op \in PrimaryOps
          /\ (pc = "done" /\ ~AllWhitespace(raw_sql)) =>
                \E k \in LibrarySteps : steps[k].op \in PrimaryOps
    /\ (\E k \in LibrarySteps : steps[k].op = "sqlparse.format") => ~HAVE_SQLGLOT

\* both libraries present, the primary path failed, sqlparse was not called
C4_Witness ==
    /\ HAVE_SQLGLOT /\ HAVE_SQLPARSE
    /\ pc = "done"
    /\ message.level = "error"
    /\ LibrarySteps # {}
    /\ \A k \in LibrarySteps : steps[k].op \in PrimaryOps /\ ~steps[k].ok

FirstAttemptFailures ==
    { k \in LibrarySteps : steps[k].op \in {"parse_one", "tree.sql"} /\ ~steps[k].ok }
Transpiles == { k \in LibrarySteps : steps[k].op = "sqlglot.transpile" }

\* C5: in pretty mode on the primary path, when parse_one or tree.sql fails,
\* sqlglot.transpile(pretty=True) is tried once and only once; if it succeeds
\* its result is the output; if it fails the error shown is the first error,
\* not the retry's, and there is no output.
C5_RetryOnceThenFirstError ==
    /\ (HAVE_SQLGLOT /\ ~compact) => Cardinality(Transpiles) <= 1
    /\ (HAVE_SQLGLOT /\ ~compact /\ Transpiles # {}) => FirstAttemptFailures # {}
    /\ (pc \in {"show", "fail", "done"} /\ FirstAttemptFailures # {}) =>
          LET f == CHOOSE k \in FirstAttemptFailures : TRUE
              r == CHOOSE k \in Transpiles : TRUE
          IN  /\ Cardinality(Transpiles) = 1
              /\ Cardinality(FirstAttemptFailures) = 1
              /\ f < r
              /\ steps[r].kw.pretty = TRUE
              /\ steps[r].arg = TextOf(steps[f])
              /\ IF steps[r].ok
                 THEN /\ pretty_sql = ResultOf("sqlglot.transpile", steps[r].arg, steps[r].kw)
                      /\ pc = "done" =>
                            message.level = "success" /\ shown = pretty_sql
                 ELSE /\ NoOutput
                      /\ e = [exc |-> "Exception", by |-> steps[f].op]
                      /\ pc = "done" =>
                            message = [level |-> "error",
                                       e |-> [exc |-> "Exception", by |-> steps[f].op]]

\* tree.sql failed, the retry failed too: the error shown is tree.sql's
C5_Witness ==
    /\ pc = "done"
    /\ Len(steps) >= 3
    /\ \E k \in FirstAttemptFailures : steps[k].op = "tree.sql"
    /\ \E k \in Transpiles : ~steps[k].ok
    /\ message.level = "error" /\ message.e.by = "tree.sql"

\* each run of whitespace of t replaced by one space
RECURSIVE RunsToSpaceFrom(_, _)
RunsToSpaceFrom(t, i) ==
    IF i > Len(t) THEN <<>>
    ELSE (IF t[i] \notin Whitespace THEN <<t[i]>>
          ELSE IF i = 1 \/ t[i - 1] \notin Whitespace THEN <<" ">>
          ELSE <<>>) \o RunsToSpaceFrom(t, i + 1)
RunsToSpace(t) == RunsToSpaceFrom(t, 1)

FailedCompactCalls ==
    { k \in Transpiles : ~steps[k].ok /\ steps[k].kw.pretty = FALSE }

\* C6 as claimed: compact mode on the primary path never ends in a failure;
\* when the transpile call fails the result is the prepared text with every
\* run of whitespace replaced by one space, and no error is reported.
C6_CollapseReplacesEveryRun ==
    (HAVE_SQLGLOT /\ compact /\ pc = "done" /\ ~AllWhitespace(raw_sql)) =>
        /\ message.level = "success"
        /\ \A k \in FailedCompactCalls :
              shown = [kind |-> "text", text |-> RunsToSpace(steps[k].arg)]

\* C6 as amended: compact mode on the primary path never ends in a failure;
\* when the transpile call fails the result is the prepared text with its
\* leading and trailing whitespace removed and every remaining run of
\* whitespace replaced by one space, and no error is reported.
C6_CollapseTrimsAndReplacesRuns ==
    /\ (HAVE_SQLGLOT /\ compact) => pc # "fail" /\ message.level \notin {"error"}
    /\ (HAVE_SQLGLOT /\ compact /\ pc \in {"show", "done"}) =>
          \A k \in FailedCompactCalls :
              pretty_sql = [kind |-> "text", text |-> RunsToSpace(Trimmed(steps[k].arg))]
    /\ (HAVE_SQLGLOT /\ compact /\ pc = "done" /\ ~AllWhitespace(raw_sql)) =>
          /\ message.level = "success"
          /\ shown = pretty_sql
          /\ FailedCompactCalls # {} => shown.kind = "text"

\* " a" and a newline, with a failing transpile call: "a" is shown, with success
C6_Witness ==
    /\ HAVE_SQLGLOT /\ compact /\ pc = "done"
    /\ raw_sql = <<" ", "a", NL>>
    /\ FailedCompactCalls # {}
    /\ shown = [kind |-> "text", text |-> <<"a">>]
    /\ message.level = "success"

\* C7: a request whose text is empty or whitespace-only ends in a warning, a
\* non-blank request with neither library ends in an error; in both cases no
\* library call is made and there is no output text and no download.
C7_StopsBeforeAnyBackendCall ==
    /\ (AllWhitespace(raw_sql) \/ (~HAVE_SQLGLOT /\ ~HAVE_SQLPARSE)) =>
          /\ LibrarySteps = {}
          /\ NoOutput
    /\ (pc = "done" /\ AllWhitespace(raw_sql)) => message = [level |-> "warning"]
    /\ (pc = "done" /\ ~AllWhitespace(raw_sql) /\ ~HAVE_SQLGLOT /\ ~HAVE_SQLPARSE) =>
          /\ message.level = "error"
          /\ message.e.exc = "RuntimeError"

\* a whitespace-only text ended in the warning although a library is present
C7_Witness ==
    /\ raw_sql = <<" ", NL>>
    /\ HAVE_SQLGLOT
    /\ pc = "done"
    /\ message.level = "warning"
    /\ steps = <<>>

\* the text a request's options and input call for: normalized when
\* single_line_safe, then stripped when remove_comments
PreparedText ==
    LET n == IF single_line_safe THEN NormalizedText(raw_sql) ELSE raw_sql
    IN  IF remove_comments THEN CommentsStripped(n) ELSE n

\* C8: on both paths and in both modes the steps come in the order normalizer,
\* stripper, library call: with single_line_safe the normalizer is applied to
\* the input first, the stripper (when on) works on what the normalizer
\* returned, and every library call is given the text these produced; with
\* single_line_safe off the normalizer is not applied at all.
C8_NormalizeThenStripThenCall ==
    /\ \A n \in NormalizerSteps :
          /\ single_line_safe
          /\ n = 1
          /\ steps[n].arg = raw_sql
    /\ ~single_line_safe => NormalizerSteps = {}
    /\ \A k \in StripperSteps :
          /\ k = IF single_line_safe THEN 2 ELSE 1
          /\ steps[k].arg = IF single_line_safe THEN steps[1].out ELSE raw_sql
    /\ \A k \in LibrarySteps :
          /\ single_line_safe => \E n \in NormalizerSteps : n < k
          /\ remove_comments => \E j \in StripperSteps : j < k
          /\ \A j \in NormalizerSteps \cup StripperSteps : j < k
          /\ TextOf(steps[k]) = PreparedText
    /\ pc \in PastStrip => sql = PreparedText

\* "a--", both toggles on: normalized to "a/*  */", stripped to "a ", and
\* that is what the library was given (in the other order the comment stays)
C8_Witness ==
    /\ raw_sql = <<"a", "-", "-">>
    /\ single_line_safe /\ remove_comments
    /\ pc = "done"
    /\ Len(steps) >= 3
    /\ steps[1].op = "dash_to_block"
    /\ steps[1].out = <<"a", "/", "*", " ", " ", "*", "/">>
    /\ steps[2].op = "strip_comments"
    /\ steps[2].out = <<"a", " ">>
    /\ IsLibraryCall(steps[3]) /\ TextOf(steps[3]) = <<"a", " ">>

\* the keyword case the fallback is to be given
FallbackCase == IF keyword_case = "lower" THEN "lower" ELSE "upper"

\* C9: with compact on, the library call made and its arguments do not depend
\* on indent, width and leading_comma: sqlglot gets transpile(text,
\* read=dialect, pretty=False, identity=True), sqlparse gets format(text,
\* keyword_case, strip_comments, reindent=False); nothing is pretty-printed
\* or reindented, the result is that call's (or the collapsed text), and the
\* request succeeds.
C9_CompactIgnoresLayoutOptions ==
    compact =>
        /\ \A k \in LibrarySteps :
              /\ steps[k].op \in {"sqlglot.transpile", "sqlparse.format"}
              /\ steps[k].arg = PreparedText
              /\ steps[k].op = "sqlglot.transpile" =>
                    steps[k].kw = [read |-> dialect, pretty |-> FALSE, identity |-> TRUE]
              /\ steps[k].op = "sqlparse.format" =>
                    steps[k].kw = [keyword_case |-> FallbackCase,
                                   strip_comments |-> remove_comments,
                                   reindent |-> FALSE]
        /\ Cardinality(LibrarySteps) <= 1
        /\ (pc = "done" /\ ~AllWhitespace(raw_sql) /\ (HAVE_SQLGLOT \/ HAVE_SQLPARSE)) =>
              /\ message.level = "success"
              /\ \E k \in LibrarySteps :
                    shown = IF steps[k].ok
                            THEN ResultOf(steps[k].op, steps[k].arg, steps[k].kw)
                            ELSE [kind |-> "text",
                                  text |-> RunsToSpace(Trimmed(PreparedText))]

\* compact together with non-default layout options, on the primary path
C9_Witness ==
    /\ compact /\ indent = 8 /\ width = 40 /\ leading_comma
    /\ HAVE_SQLGLOT
    /\ pc = "done"
    /\ message.level = "success"
    /\ \E k \in LibrarySteps : steps[k].op = "sqlglot.transpile" /\ steps[k].ok

\* C10: with sqlglot unavailable and sqlparse available, sqlparse.format is
\* given keyword_case "lower" for lower and "upper" for upper and capitalize,
\* reindent exactly when not compact (indent_width only then), and
\* strip_comments equal to remove_comments, and nothing else; the request
\* yields that call's result, whatever the other options are.
C10_FallbackOptionMapping ==
    (~HAVE_SQLGLOT /\ HAVE_SQLPARSE) =>
        /\ \A k \in LibrarySteps :
              /\ steps[k].op = "sqlparse.format"
              /\ steps[k].arg = PreparedText
              /\ steps[k].kw.keyword_case = FallbackCase
              /\ steps[k].kw.reindent = ~compact
              /\ steps[k].kw.strip_comments = remove_comments
              /\ DOMAIN steps[k].kw =
                    IF compact THEN {"keyword_case", "strip_comments", "reindent"}
                    ELSE {"keyword_case", "strip_comments", "reindent", "indent_width"}
              /\ ~compact => steps[k].kw.indent_width = indent
        /\ (pc = "done" /\ ~AllWhitespace(raw_sql)) =>
              /\ Cardinality(LibrarySteps) = 1
              /\ message.level = "success"
              /\ \E k \in LibrarySteps :
                    shown = ResultOf("sqlparse.format", steps[k].arg, steps[k].kw)

\* capitalize, with every option sqlparse knows nothing of set: upper is passed
C10_Witness ==
    /\ ~HAVE_SQLGLOT /\ HAVE_SQLPARSE
    /\ keyword_case = "capitalize"
    /\ identifier_case = "upper" /\ leading_comma /\ normalize /\ dialect = "ansi"
    /\ ~compact
    /\ pc = "done"
    /\ message.level = "success"
    /\ \E k \in LibrarySteps : steps[k].kw.keyword_case = "upper" /\ steps[k].kw.reindent

====
